---- MODULE Spec2Model ----
(***************************************************************************)
(* Model of jinfund/portfolio/holdings.py: Portfolio.build,                *)
(* Portfolio.stocksplits and Portfolio.plot.                               *)
(*                                                                         *)
(* A pandas frame is a sequence of rows (records); a cell is NaN (the      *)
(* empty tuple) or Num(x) (a one-element tuple).  Dates are day numbers.   *)
(* A split factor is a rational <<n, d>>, so that np.ceil is exact.        *)
(***************************************************************************)
EXTENDS Integers, Sequences, FiniteSets, TLC

\* ---------------------------------------------------------------- bounds
MaxDate == 4
MaxTrades == 2
MaxActions == 2

Dates == 1..MaxDate
TickerOrder == <<"A", "B">>
AllTickers == {TickerOrder[i] : i \in 1..Len(TickerOrder)}
Volumes == {-1, 1}
EffectivePrices == {3}
ClosePrices == [A |-> 10, B |-> 7]
\* "Stock Splits" cells of yfinance's actions frame: 0 on a dividend-only row
DividendOnly == <<0, 1>>
Factors == {<<1, 2>>, <<3, 2>>}
BuildFactors == {<<2, 1>>}

\* ----------------------------------------------------------------- cells
NaN == <<>>
Num(x) == <<x>>
isna(v) == v = NaN
Val(v) == v[1]

\* np.ceil of the rational a/d, d > 0
Ceil(a, d) == -((-a) \div d)

\* ---------------------------------------------------------------- state
VARIABLES
    trades,      \* self.trades: the ledger, ordered by (Date, Ticker)
    today,       \* self.today
    close,       \* prices['Adj Close']: [index, col], col[t][d] a cell
    lookup,      \* per ticker: how yf.Ticker(..).actions ends
    actions,     \* per ticker: stock.actions as [date -> "Stock Splits" cell]
    pc,          \* "init" | "loop" | "built" | "raised" | "plotted"
    i,           \* position of the for loop in tickers
    ticker_df,   \* ticker_df after line 67, per ticker processed
    adj_df,      \* ticker_df after line 70, per ticker processed
    df_pfolio,   \* the table being concatenated
    holdings,    \* self.holdings
    plot_df      \* what plot returns

vars == <<trades, today, close, lookup, actions, pc, i, ticker_df, adj_df,
          df_pfolio, holdings, plot_df>>

inputs == <<trades, today, close, lookup, actions>>

\* -------------------------------------------------------------- sequences
RECURSIVE SeqSum(_)
SeqSum(s) == IF s = <<>> THEN 0 ELSE Head(s) + SeqSum(Tail(s))

RECURSIVE Flatten(_)
Flatten(ss) == IF ss = <<>> THEN <<>> ELSE Head(ss) \o Flatten(Tail(ss))

RowsAt(df, d) == SelectSeq(df, LAMBDA r : r.Date = d)

\* pandas cumsum / cumprod skip NaN: a NaN cell stays NaN, the total runs on
cumsum(col) ==
    [k \in 1..Len(col) |->
        IF isna(col[k]) THEN NaN
        ELSE Num(SeqSum([j \in 1..k |-> IF isna(col[j]) THEN 0 ELSE Val(col[j])]))]

RECURSIVE ProdN(_, _)
ProdN(col, k) ==
    IF k = 0 THEN <<1, 1>>
    ELSE LET p == ProdN(col, k - 1)
         IN  IF isna(col[k]) THEN p ELSE <<p[1] * col[k][1], p[2] * col[k][2]>>

cumprod(col) ==
    [k \in 1..Len(col) |-> IF isna(col[k]) THEN NaN ELSE ProdN(col, k)]

\* ffill: the last cell that is not NaN at or before k
RECURSIVE LastValid(_, _)
LastValid(col, k) ==
    IF k = 0 THEN NaN
    ELSE IF isna(col[k]) THEN LastValid(col, k - 1) ELSE col[k]

ffill(col) == [k \in 1..Len(col) |-> LastValid(col, k)]

fillna(col, v) == [k \in 1..Len(col) |-> IF isna(col[k]) THEN v ELSE col[k]]

Col(df, name) == [k \in 1..Len(df) |-> df[k][name]]
SetCol(df, name, col) == [k \in 1..Len(df) |-> [df[k] EXCEPT ![name] = col[k]]]

\* ------------------------------------------------------- pd.merge_ordered
\* how='outer' (the default): every key of either side, in key order; a key
\* on one side only has NaN for the other side's row; equal keys pair up
\* left-major.  A row is returned as [Date, L, R], L and R a row cell.
JoinAt(left, right, d) ==
    LET L == RowsAt(left, d)
        R == RowsAt(right, d)
    IN  IF L = <<>>
        THEN [k \in 1..Len(R) |-> [Date |-> d, L |-> NaN, R |-> Num(R[k])]]
        ELSE IF R = <<>>
        THEN [k \in 1..Len(L) |-> [Date |-> d, L |-> Num(L[k]), R |-> NaN]]
        ELSE [k \in 1..(Len(L) * Len(R)) |->
                [Date |-> d,
                 L |-> Num(L[((k - 1) \div Len(R)) + 1]),
                 R |-> Num(R[((k - 1) % Len(R)) + 1])]]

RECURSIVE MergeFrom(_, _, _)
MergeFrom(left, right, d) ==
    IF d > MaxDate THEN <<>>
    ELSE JoinAt(left, right, d) \o MergeFrom(left, right, d + 1)

merge_ordered(left, right) == MergeFrom(left, right, 1)

\* the cell of column name in a row cell of a merge (NaN when the row is absent)
Cell(rowcell, name) == IF isna(rowcell) THEN NaN ELSE Val(rowcell)[name]

\* ------------------------------------------------------ collaborators
\* Trades.by_ticker(ticker): the ticker's events, in ledger (date) order
by_ticker(all, t) == SelectSeq(all, LAMBDA e : e.Ticker = t)

\* datehandler.date_list(start, end): every calendar day, both ends included
date_list(a, b) == [k \in 1..(b - a + 1) |-> a + k - 1]

\* --------------------------------------------------------- build, 39-67
p_inception(all) == all[1].Date
p_dates(all, now) == date_list(p_inception(all), now)
df_base_dates(all, now) ==
    [k \in 1..Len(p_dates(all, now)) |-> [Date |-> p_dates(all, now)[k]]]

\* line 50: list(sorted(set(Ticker)))
tickers(all) ==
    SelectSeq(TickerOrder, LAMBDA t : \E k \in 1..Len(all) : all[k].Ticker = t)

\* line 62
vol_df(all, t) ==
    LET ev == by_ticker(all, t)
    IN  [k \in 1..Len(ev) |-> [Date |-> ev[k].Date, Volume |-> Num(ev[k].Volume)]]

\* line 65
MergeBase(vols, base) ==
    LET m == merge_ordered(vols, base)
    IN  [k \in 1..Len(m) |-> [Date |-> m[k].Date, Volume |-> Cell(m[k].L, "Volume")]]

\* line 66
CumFill(df) == SetCol(df, "Volume", ffill(cumsum(Col(df, "Volume"))))

\* line 67
DropNa(df) == SelectSeq(df, LAMBDA r : ~isna(r.Volume))

\* lines 62-67: the cumulative quantity of one ticker before split adjustment
Cumulative(all, now, t) ==
    DropNa(CumFill(MergeBase(vol_df(all, t), df_base_dates(all, now))))

\* ------------------------------------------------- stocksplits, 86-126
\* line 107: some row of the actions frame has "Stock Splits" > 0
HasSplits(df_actions) == \E d \in DOMAIN df_actions : df_actions[d][1] > 0

\* line 108: the actions column aligned on df's dates, 0 replaced by NaN
SplitColumn(df, df_actions) ==
    [k \in 1..Len(df) |->
        IF df[k].Date \in DOMAIN df_actions /\ df_actions[df[k].Date][1] # 0
        THEN df_actions[df[k].Date] ELSE NaN]

\* line 111 left out: a zero holding stays 0
MaskZero_kept(col) == col

\* line 111
MaskZero(col) == [k \in 1..Len(col) |-> IF col[k] = Num(0) THEN NaN ELSE col[k]]

\* line 113, df.loc[first_valid_index():]: the position of the first row that
\* carries the label of the first valid cell (1 when there is none: loc[None:])
FirstValidPos(df, col) ==
    IF \A k \in 1..Len(col) : isna(col[k]) THEN 1
    ELSE LET v == CHOOSE k \in 1..Len(col) :
                      ~isna(col[k]) /\ \A j \in 1..(k - 1) : isna(col[j])
         IN  CHOOSE k \in 1..Len(df) :
                 df[k].Date = df[v].Date /\ \A j \in 1..(k - 1) : df[j].Date # df[v].Date

\* line 114 without the forward fill: only the split's own date is scaled
stocksplit_cumulative_noffill(splits) == fillna(cumprod(splits), <<1, 1>>)

\* lines 113-114
stocksplit_cumulative(splits) == fillna(ffill(cumprod(splits)), <<1, 1>>)

\* line 118 dividing (as the vwap of line 122 would be) instead of multiplying
Scale_divided(vol, cum, start) ==
    [k \in 1..Len(vol) |->
        IF k < start \/ isna(vol[k]) THEN NaN
        ELSE Num(Ceil(Val(vol[k]) * cum[k - start + 1][2], cum[k - start + 1][1]))]

\* lines 118-119: Volume *= stocksplit_cumulative (NaN on the rows before the
\* slice), then np.ceil
Scale(vol, cum, start) ==
    [k \in 1..Len(vol) |->
        IF k < start \/ isna(vol[k]) THEN NaN
        ELSE Num(Ceil(Val(vol[k]) * cum[k - start + 1][1], cum[k - start + 1][2]))]

\* lines 106-126, the lookup having returned df_actions
Adjust(df, df_actions) ==
    IF HasSplits(df_actions)
    THEN LET splits == SplitColumn(df, df_actions)
             vol    == MaskZero(Col(df, "Volume"))
             start  == FirstValidPos(df, vol)
             cum    == stocksplit_cumulative(SubSeq(splits, start, Len(splits)))
         IN  SetCol(df, "Volume", Scale(vol, cum, start))
    ELSE df

\* lines 99-126; outcome is how the lookup ended: "ok" or "TypeError" (an
\* exception of another type leaves stocksplits and build, see BuildRaise)
stocksplits(df, outcome, df_actions) ==
    IF outcome = "TypeError" THEN df ELSE Adjust(df, df_actions)

\* --------------------------------------------------------- build, 72-81
\* close[ticker], the column renamed to Close (line 74)
CloseOf(frame, t) ==
    [k \in 1..Len(frame) |-> [Date |-> frame[k].Date, Close |-> frame[k].Price[t]]]

\* lines 73-77
MergeClose(df, prices, t) ==
    LET m == merge_ordered(df, prices)
    IN  [k \in 1..Len(m) |->
            [Date |-> m[k].Date, Ticker |-> t,
             Volume |-> Cell(m[k].L, "Volume"), Close |-> Cell(m[k].R, "Close")]]

\* line 80: set_index(['Date','Ticker']).sort_index()
SortIndex(df) ==
    Flatten([n \in 1..(MaxDate * Len(TickerOrder)) |->
        LET d == ((n - 1) \div Len(TickerOrder)) + 1
            t == TickerOrder[((n - 1) % Len(TickerOrder)) + 1]
        IN  SelectSeq(df, LAMBDA r : r.Date = d /\ r.Ticker = t)])

Mul(a, b) == IF isna(a) \/ isna(b) THEN NaN ELSE Num(Val(a) * Val(b))
Sub(a, b) == IF isna(a) \/ isna(b) THEN NaN ELSE Num(Val(a) - Val(b))
\* float division: a rational <<n, d>>; <<n, 0>> is +-inf, 0/0 is NaN
Div(a, b) ==
    IF isna(a) \/ isna(b) \/ (Val(a) = 0 /\ Val(b) = 0) THEN NaN
    ELSE <<Val(a), Val(b)>>

\* line 81
AssignValue(df) ==
    [k \in 1..Len(df) |->
        [Date |-> df[k].Date, Ticker |-> df[k].Ticker, Volume |-> df[k].Volume,
         Close |-> df[k].Close, Value |-> Mul(df[k].Volume, df[k].Close)]]

\* ------------------------------------------------------- plot, 128-151
DatesOf(df) == {df[k].Date : k \in 1..Len(df)}

\* groupby('Date').sum()[name]: one row per date, in date order; sum skips NaN
GroupSum(df, name) ==
    LET at(d) == SeqSum([k \in 1..Len(RowsAt(df, d)) |->
                     IF isna(RowsAt(df, d)[k][name]) THEN 0
                     ELSE Val(RowsAt(df, d)[k][name])])
        all == [d \in 1..MaxDate |->
                   IF d \in DatesOf(df) THEN <<[Date |-> d, Value |-> Num(at(d))]>>
                   ELSE <<>>]
    IN  Flatten(all)

\* lines 130-131
value_df(hold) == SelectSeq(GroupSum(hold, "Value"), LAMBDA r : Val(r.Value) > 0)

\* line 134
TradeValue(all) ==
    [k \in 1..Len(all) |->
        [Date |-> all[k].Date, Value |-> Num(all[k].Volume * all[k].EffectivePrice)]]

\* line 135 without the cumsum: the cost of each date alone
cost_df_daily(all) == GroupSum(TradeValue(all), "Value")

\* line 135
cost_df(all) ==
    LET g == GroupSum(TradeValue(all), "Value")
    IN  SetCol(g, "Value", cumsum(Col(g, "Value")))

\* line 137: merge_ordered(..., fill_method='ffill'), both sides keyed uniquely
MergeFfill(values, costs) ==
    LET m == merge_ordered(values, costs)
        v == ffill([k \in 1..Len(m) |-> Cell(m[k].L, "Value")])
        c == ffill([k \in 1..Len(m) |-> Cell(m[k].R, "Value")])
    IN  [k \in 1..Len(m) |-> [Date |-> m[k].Date, Value |-> v[k], Cost |-> c[k]]]

\* lines 137-140
PlotFrame(hold, all) ==
    LET m == MergeFfill(value_df(hold), cost_df(all))
    IN  [k \in 1..Len(m) |->
            [Date |-> m[k].Date, Value |-> m[k].Value, Cost |-> m[k].Cost,
             pl_line |-> Sub(m[k].Value, m[k].Cost),
             pl_pct |-> Div(Sub(m[k].Value, m[k].Cost), m[k].Cost)]]

Views == {"default", "pl", "pl_pct"}

\* ---------------------------------------------------------------- inputs
Events == [Date : Dates, Ticker : AllTickers, Volume : Volumes,
           EffectivePrice : EffectivePrices]

TickerPos(t) == CHOOSE k \in 1..Len(TickerOrder) : TickerOrder[k] = t

\* the ledger is ordered by (Date, Ticker)
Before(a, b) ==
    \/ a.Date < b.Date
    \/ a.Date = b.Date /\ TickerPos(a.Ticker) <= TickerPos(b.Ticker)

Ledgers ==
    {s \in UNION {[1..n -> Events] : n \in 1..MaxTrades} :
        \A k \in 1..(Len(s) - 1) : Before(s[k], s[k + 1])}

TickerSet(all) == {all[k].Ticker : k \in 1..Len(all)}

\* the download: some days from inception to today, every ticker priced
CloseFrames(all, now) ==
    {Flatten([d \in 1..MaxDate |->
         IF d \in D THEN <<[Date |-> d, Price |-> [t \in TickerSet(all) |-> Num(ClosePrices[t])]]>>
         ELSE <<>>]) : D \in SUBSET (p_inception(all)..now)}

\* stock.actions with at most n rows, the "Stock Splits" cells drawn from F
ActionFrames(n, F) ==
    UNION {[D -> F] : D \in {X \in SUBSET Dates : Cardinality(X) <= n}}

NoActions == [d \in {} |-> DividendOnly]

Outcomes == {"ok", "TypeError", "OtherError"}

\* a ledger with one ticker and at most one event a day
LedgerOf(t, f) ==
    Flatten([d \in 1..MaxDate |->
        IF f[d] = 0 THEN <<>>
        ELSE <<[Date |-> d, Ticker |-> t, Volume |-> f[d],
                EffectivePrice |-> CHOOSE p \in EffectivePrices : TRUE]>>])

DailyLedgers ==
    {LedgerOf(TickerOrder[1], f) :
        f \in {g \in [Dates -> Volumes \cup {0}] : \E d \in Dates : g[d] # 0}}

\* the ledgers of one ticker: one event a day on any days, or up to MaxTrades
\* events of which several may share a day
OneTickerLedgers ==
    DailyLedgers \cup {s \in Ledgers : TickerSet(s) = {TickerOrder[1]}}

FullClose(all, now) ==
    [k \in 1..Len(p_dates(all, now)) |->
        [Date |-> p_dates(all, now)[k],
         Price |-> [t \in TickerSet(all) |-> Num(ClosePrices[t])]]]

\* ----------------------------------------------------------------- Init
Start ==
    /\ today = MaxDate
    /\ pc = "loop"
    /\ i = 1
    /\ ticker_df = <<>>
    /\ adj_df = <<>>
    /\ df_pfolio = <<>>
    /\ holdings = <<>>
    /\ plot_df = <<>>

\* any ledger; per ticker the lookup fails or returns at most one action row
Init ==
    /\ trades \in Ledgers
    /\ Start
    /\ close \in CloseFrames(trades, MaxDate)
    /\ lookup \in [TickerSet(trades) -> Outcomes]
    /\ actions \in [TickerSet(trades) -> ActionFrames(1, BuildFactors)]
    /\ \A t \in TickerSet(trades) : lookup[t] # "ok" => actions[t] = NoActions

\* one ticker, the lookup succeeds with any actions
InitAdj ==
    /\ trades \in OneTickerLedgers
    /\ Start
    /\ close = FullClose(trades, MaxDate)
    /\ lookup = [t \in TickerSet(trades) |-> "ok"]
    /\ actions \in [TickerSet(trades) -> ActionFrames(MaxActions, Factors \cup {DividendOnly})]

\* any ledger and prices, every lookup succeeds
InitPlot ==
    /\ trades \in Ledgers
    /\ Start
    /\ close \in CloseFrames(trades, MaxDate)
    /\ lookup = [t \in TickerSet(trades) |-> "ok"]
    /\ actions \in [TickerSet(trades) -> {NoActions, (p_inception(trades) :> <<2, 1>>)}]

\* -------------------------------------------------------------- actions
\* one iteration of the for loop of build (lines 61-78)
BuildTicker ==
    /\ pc = "loop"
    /\ i <= Len(tickers(trades))
    /\ LET t   == tickers(trades)[i]
           raw == Cumulative(trades, today, t)
           adj == stocksplits(raw, lookup[t], actions[t])
       IN  /\ lookup[t] # "OtherError"
           /\ ticker_df' = ticker_df @@ (t :> raw)
           /\ adj_df' = adj_df @@ (t :> adj)
           /\ df_pfolio' = df_pfolio \o MergeClose(adj, CloseOf(close, t), t)
    /\ i' = i + 1
    /\ UNCHANGED <<inputs, pc, holdings, plot_df>>

\* the iteration in which the lookup raises something that is no TypeError:
\* the except clause of line 102 does not apply, build is left by the exception
BuildRaise ==
    /\ pc = "loop"
    /\ i <= Len(tickers(trades))
    /\ LET t == tickers(trades)[i]
       IN  /\ lookup[t] = "OtherError"
           /\ ticker_df' = ticker_df @@ (t :> Cumulative(trades, today, t))
    /\ pc' = "raised"
    /\ UNCHANGED <<inputs, i, adj_df, df_pfolio, holdings, plot_df>>

\* lines 80-84, and line 30
BuildReturn ==
    /\ pc = "loop"
    /\ i > Len(tickers(trades))
    /\ holdings' = AssignValue(SortIndex(df_pfolio))
    /\ pc' = "built"
    /\ UNCHANGED <<inputs, i, ticker_df, adj_df, df_pfolio, plot_df>>

\* plot(view)
Plot ==
    /\ pc = "built"
    /\ \E view \in Views : plot_df' = PlotFrame(holdings, trades)
    /\ pc' = "plotted"
    /\ UNCHANGED <<inputs, i, ticker_df, adj_df, df_pfolio, holdings>>

Next == BuildTicker \/ BuildRaise \/ BuildReturn \/ Plot

NextAdj == BuildTicker \/ BuildReturn

Spec == Init /\ [][Next]_vars

SpecAdj == InitAdj /\ [][NextAdj]_vars

NextPlot == BuildTicker \/ BuildReturn \/ Plot

SpecPlot == InitPlot /\ [][NextPlot]_vars

\* ------------------------------------------------- what the claims speak of
\* the ledger's events of ticker t dated on or before d
VolumeUpTo(t, d) ==
    SeqSum([k \in 1..Len(trades) |->
        IF trades[k].Ticker = t /\ trades[k].Date <= d THEN trades[k].Volume ELSE 0])

FirstTradeDate(t) ==
    CHOOSE d \in Dates :
        /\ \E k \in 1..Len(trades) : trades[k].Ticker = t /\ trades[k].Date = d
        /\ \A k \in 1..Len(trades) : trades[k].Ticker = t => trades[k].Date >= d

TradesOn(t, d) ==
    Len(SelectSeq(trades, LAMBDA e : e.Ticker = t /\ e.Date = d))

\* a split of ticker t is dated d
SplitOn(t, d) == d \in DOMAIN actions[t] /\ actions[t][d][1] > 0

\* the product of the factors of the splits of ticker t dated in lo..hi
RECURSIVE FactorProduct(_, _, _)
FactorProduct(t, lo, hi) ==
    IF hi < lo THEN <<1, 1>>
    ELSE LET p == FactorProduct(t, lo, hi - 1)
         IN  IF SplitOn(t, hi)
             THEN <<p[1] * actions[t][hi][1], p[2] * actions[t][hi][2]>>
             ELSE p

\* the raw and the adjusted quantity cell of ticker t on the k-th day of its series
Raw(t, k) == ticker_df[t][k].Volume
Adjusted(t, k) == adj_df[t][k].Volume
Day(t, k) == ticker_df[t][k].Date
Days(t) == 1..Len(ticker_df[t])

SameDays(t) ==
    /\ Len(adj_df[t]) = Len(ticker_df[t])
    /\ \A k \in Days(t) : adj_df[t][k].Date = Day(t, k)

\* ================================================================ claims

\* C1: on every row of a ticker's cumulative quantity series (line 67, before
\* split adjustment) the quantity is the sum of the volumes of all of the
\* ticker's trade events dated on or before the row's date.
C1_RunningSum ==
    \A t \in DOMAIN ticker_df : \A k \in Days(t) :
        Raw(t, k) = Num(VolumeUpTo(t, Day(t, k)))

\* C2: the table returned by build has no row of a ticker dated before that
\* ticker's first trade date.
C2_NoRowBeforeFirstTrade ==
    pc = "built" =>
        \A k \in 1..Len(holdings) :
            holdings[k].Date >= FirstTradeDate(holdings[k].Ticker)

\* C6: every row of the table returned by build has a known closing price.
C6_EveryRowPriced ==
    pc = "built" => \A k \in 1..Len(holdings) : ~isna(holdings[k].Close)

\* C7: when the actions lookup fails for one ticker, in whatever way, and
\* succeeds for another, build is not left by the exception, and the failing
\* ticker's quantities stay as they were before stocksplits.
C7_FailSoft ==
    (\E a, b \in TickerSet(trades) : lookup[a] # "ok" /\ lookup[b] = "ok") =>
        /\ pc # "raised"
        /\ \A a \in DOMAIN adj_df : lookup[a] # "ok" => adj_df[a] = ticker_df[a]

\* C8: for a date on which a ticker has trade events, several included, the
\* table returned by build has exactly one row for (date, ticker), and the
\* quantity before split adjustment includes all of that date's volumes.
C8_OneRowPerKey ==
    pc = "built" =>
        \A t \in TickerSet(trades) : \A d \in Dates :
            TradesOn(t, d) > 0 =>
                /\ Len(SelectSeq(holdings, LAMBDA r : r.Date = d /\ r.Ticker = t)) = 1
                /\ \A k \in Days(t) : Day(t, k) = d => Raw(t, k) = Num(VolumeUpTo(t, d))

\* the first day on which ticker t's raw quantity is defined and not zero
FirstHeld(t) ==
    CHOOSE d \in Dates :
        /\ \E k \in Days(t) : Day(t, k) = d /\ Raw(t, k) # Num(0)
        /\ \A k \in Days(t) : Raw(t, k) # Num(0) => Day(t, k) >= d

\* the quantity series of ticker t is keyed by date: no two rows share a day
KeyedByDate(t) == \A j, k \in Days(t) : Day(t, j) = Day(t, k) => j = k

ClosedBeforeSplit(t, k, e, s) ==
    /\ e < s /\ s <= Day(t, k)
    /\ SplitOn(t, s)
    /\ \A j \in Days(t) : (e <= Day(t, j) /\ Day(t, j) <= Day(t, k)) => Raw(t, j) = Num(0)
    /\ \E j \in Days(t) : Day(t, j) = e

\* C4 as stated: after a full sale, on and after a later split the quantity
\* is the defined value 0.
C4_StaysZero ==
    \A t \in DOMAIN adj_df : \A k \in Days(t) : \A e, s \in Dates :
        ClosedBeforeSplit(t, k, e, s) => Adjusted(t, k) = Num(0)

\* C4 as amended: after a full sale, on and after a later split the quantity
\* is never a non-zero number: it is undefined (NaN).
C4_StaysUndefined ==
    \A t \in DOMAIN adj_df : \A k \in Days(t) : \A e, s \in Dates :
        ClosedBeforeSplit(t, k, e, s) => (SameDays(t) /\ isna(Adjusted(t, k)))

\* a day after the split date of a closed position
C4_Witness ==
    \E t \in DOMAIN adj_df : \E k \in Days(t) : \E e, s \in Dates :
        /\ ClosedBeforeSplit(t, k, e, s)
        /\ s < Day(t, k)
        /\ isna(Adjusted(t, k))

\* no split with a factor other than 1 is dated within ticker t's series
NoSplitInRange(t) ==
    \A k \in Days(t) :
        SplitOn(t, Day(t, k)) => actions[t][Day(t, k)][1] = actions[t][Day(t, k)][2]

\* C5: when no split with a factor other than 1 is dated within the quantity
\* series' dates, stocksplits returns the series unchanged, zeros included.
C5_IdentityInRange ==
    \A t \in DOMAIN adj_df : NoSplitInRange(t) => adj_df[t] = ticker_df[t]

\* a forward split (factor > 1) of ticker t is dated on or before day d
ForwardSplitBy(t, d) ==
    \E s \in Dates : s <= d /\ SplitOn(t, s) /\ actions[t][s][1] > actions[t][s][2]

\* C9 as stated: on or after a forward split, a defined adjusted quantity is
\* not less than the raw quantity, whatever the history and the other splits.
C9_NeverBelowRaw ==
    \A t \in DOMAIN adj_df : \A k \in Days(t) :
        (ForwardSplitBy(t, Day(t, k)) /\ ~isna(Adjusted(t, k))) =>
            Val(Adjusted(t, k)) >= Val(Raw(t, k))

\* no reverse split (factor < 1) of ticker t is dated in lo..hi
NoReverseSplit(t, lo, hi) ==
    \A s \in lo..hi : SplitOn(t, s) => actions[t][s][1] >= actions[t][s][2]

\* C9 as amended: the same, for a positive raw quantity and no reverse split
\* dated from the first defined day up to that day.
C9_NeverBelowRawPositive ==
    \A t \in DOMAIN adj_df : \A k \in Days(t) :
        (/\ ForwardSplitBy(t, Day(t, k))
         /\ ~isna(Adjusted(t, k))
         /\ Val(Raw(t, k)) > 0
         /\ NoReverseSplit(t, FirstHeld(t), Day(t, k))) =>
            Val(Adjusted(t, k)) >= Val(Raw(t, k))

\* a day after two forward splits, the positive quantity scaled up
C9_Witness ==
    \E t \in DOMAIN adj_df : \E k \in Days(t) :
        /\ ForwardSplitBy(t, Day(t, k))
        /\ Cardinality({s \in FirstHeld(t)..Day(t, k) : SplitOn(t, s)}) >= 2
        /\ NoReverseSplit(t, FirstHeld(t), Day(t, k))
        /\ ~isna(Adjusted(t, k))
        /\ Val(Raw(t, k)) > 0
        /\ Val(Adjusted(t, k)) > Val(Raw(t, k))

\* volume x effective price of every trade event dated on or before d
CostUpTo(d) ==
    SeqSum([k \in 1..Len(trades) |->
        IF trades[k].Date <= d THEN trades[k].Volume * trades[k].EffectivePrice ELSE 0])

\* C10: on every date of the series plot returns, Cost is the sum of
\* volume x effective price over all trade events dated on or before it, and
\* pl_line is Value - Cost.
C10_CostAndPl ==
    pc = "plotted" =>
        \A k \in 1..Len(plot_df) :
            /\ plot_df[k].Cost = Num(CostUpTo(plot_df[k].Date))
            /\ plot_df[k].pl_line = Sub(plot_df[k].Value, plot_df[k].Cost)

\* a date without a trade, after trades on two earlier dates
C10_Witness ==
    /\ pc = "plotted"
    /\ \E k \in 1..Len(plot_df) :
        /\ \A j \in 1..Len(trades) : trades[j].Date # plot_df[k].Date
        /\ Cardinality({trades[j].Date : j \in 1..Len(trades)} \cap 1..plot_df[k].Date) >= 2
        /\ ~isna(plot_df[k].pl_line)
        /\ CostUpTo(plot_df[k].Date) # 0

====
